---- MODULE Spec2Model ----
(***************************************************************************)
(* StrongPythonEngine of src/chess_sim.py: the static evaluator, the       *)
(* quiescence search, the negamax search and the iterative-deepening       *)
(* driver get_best_move, run step by step over an explicit call stack.     *)
(* The rules engine (python-chess) is the external collaborator: a         *)
(* position is a node of a game graph, reached from the root by the moves  *)
(* on the board's move stack.                                              *)
(***************************************************************************)
EXTENDS Integers, Sequences, FiniteSets, TLC

VARIABLES
    game,              \* the root position handed to get_best_move
    board,             \* chess.Board: its move stack above the root
    frames,            \* call stack of negamax / quiescence activations
    ret,               \* value returned by the activation that returned last
    pc,                \* position of get_best_move
    legal_moves,       \* get_best_move: the sorted root move list
    idx,               \* get_best_move: index of the root move of the for loop
    current_depth,     \* get_best_move: current_depth
    alpha,             \* get_best_move: alpha
    beta,              \* get_best_move: beta
    best_move,         \* get_best_move: best_move
    depth_best_move,   \* get_best_move: depth_best_move
    depth_best_score,  \* get_best_move: depth_best_score
    nodes_visited,     \* self.nodes_visited
    start_time,        \* self.start_time
    time_limit,        \* self.time_limit
    now,               \* the wall clock, time.time()
    result,            \* what get_best_move returned
    scores,            \* history: the scores of the root moves searched at this depth
    done_scores,       \* history: the scores of each depth completed within budget
    exits,             \* history: the exit paths the search has taken
    previous,          \* history: how the previous get_best_move call ended
    probe,             \* a single call under test: the function and its arguments
    out                \* the value the call under test returned

vars == << game, board, frames, ret, pc, legal_moves, idx, current_depth, alpha,
           beta, best_move, depth_best_move, depth_best_score, nodes_visited,
           start_time, time_limit, now, result, scores, done_scores, exits,
           previous, probe, out >>

-----------------------------------------------------------------------------
(* Bounds of the model *)

\* largest number of legal moves of a root position
MaxRootMoves == 2

\* largest time budget, in clock ticks; the clock runs up to one tick past it
MaxTimeLimit == 0

MaxClock == MaxTimeLimit + 1

\* largest number of pieces besides the kings of a position handed to evaluate
MaxExtraPieces == 1

\* largest number of legal moves of a position negamax or quiescence is called on
MaxProbeMoves == 1

\* largest number of moves the language model asks analyze_moves about at once
MaxCandidates == 1

-----------------------------------------------------------------------------
(* Constants of the program *)

\* float('inf'): larger than every score the search computes
Inf == 1000000000

\* max_turns = 3
max_turns == 3

\* max_depth = 4 # Cap
max_depth == 4

\* the mate sentinel of evaluate and negamax
MATE == 99999

WHITE == TRUE
BLACK == FALSE

PAWN == 1
KNIGHT == 2
BISHOP == 3
ROOK == 4
QUEEN == 5
KING == 6

\* PIECE_VALUES with the knight's and the bishop's value exchanged
PIECE_VALUES_exchanged == << 100, 330, 320, 500, 900, 20000 >>

\* Values for [Pawn, Knight, Bishop, Rook, Queen, King]
PIECE_VALUES == << 100, 320, 330, 500, 900, 20000 >>

\* Piece-square tables (white perspective), 64 values each, index 0 first
PST_PAWN ==
    <<
          0,    0,    0,    0,    0,    0,    0,    0,
         50,   50,   50,   50,   50,   50,   50,   50,
         10,   10,   20,   30,   30,   20,   10,   10,
          5,    5,   10,   25,   25,   10,    5,    5,
          0,    0,    0,   20,   20,    0,    0,    0,
          5,   -5,  -10,    0,    0,  -10,   -5,    5,
          5,   10,   10,  -20,  -20,   10,   10,    5,
          0,    0,    0,    0,    0,    0,    0,    0 >>

PST_KNIGHT ==
    <<
        -50,  -40,  -30,  -30,  -30,  -30,  -40,  -50,
        -40,  -20,    0,    0,    0,    0,  -20,  -40,
        -30,    0,   10,   15,   15,   10,    0,  -30,
        -30,    5,   15,   20,   20,   15,    5,  -30,
        -30,    0,   15,   20,   20,   15,    0,  -30,
        -30,    5,   10,   15,   15,   10,    5,  -30,
        -40,  -20,    0,    5,    5,    0,  -20,  -40,
        -50,  -40,  -30,  -30,  -30,  -30,  -40,  -50 >>

PST_BISHOP ==
    <<
        -20,  -10,  -10,  -10,  -10,  -10,  -10,  -20,
        -10,    0,    0,    0,    0,    0,    0,  -10,
        -10,    0,    5,   10,   10,    5,    0,  -10,
        -10,    5,    5,   10,   10,    5,    5,  -10,
        -10,    0,   10,   10,   10,   10,    0,  -10,
        -10,   10,   10,   10,   10,   10,   10,  -10,
        -10,    5,    0,    0,    0,    0,    5,  -10,
        -20,  -10,  -10,  -10,  -10,  -10,  -10,  -20 >>

PST_ROOK ==
    <<
          0,    0,    0,    0,    0,    0,    0,    0,
          5,   10,   10,   10,   10,   10,   10,    5,
         -5,    0,    0,    0,    0,    0,    0,   -5,
         -5,    0,    0,    0,    0,    0,    0,   -5,
         -5,    0,    0,    0,    0,    0,    0,   -5,
         -5,    0,    0,    0,    0,    0,    0,   -5,
         -5,    0,    0,    0,    0,    0,    0,   -5,
          0,    0,    0,    5,    5,    0,    0,    0 >>

PST_QUEEN ==
    <<
        -20,  -10,  -10,   -5,   -5,  -10,  -10,  -20,
        -10,    0,    0,    0,    0,    0,    0,  -10,
        -10,    0,    5,    5,    5,    5,    0,  -10,
         -5,    0,    5,    5,    5,    5,    0,   -5,
          0,    0,    5,    5,    5,    5,    0,   -5,
        -10,    5,    5,    5,    5,    5,    0,  -10,
        -10,    0,    5,    0,    0,    0,    0,  -10,
        -20,  -10,  -10,   -5,   -5,  -10,  -10,  -20 >>

PST_KING ==
    <<
        -30,  -40,  -40,  -50,  -50,  -40,  -40,  -30,
        -30,  -40,  -40,  -50,  -50,  -40,  -40,  -30,
        -30,  -40,  -40,  -50,  -50,  -40,  -40,  -30,
        -30,  -40,  -40,  -50,  -50,  -40,  -40,  -30,
        -20,  -30,  -30,  -40,  -40,  -30,  -30,  -20,
        -10,  -20,  -20,  -20,  -20,  -20,  -20,  -10,
         20,   20,    0,    0,    0,    0,   20,   20,
         20,   30,   10,    0,    0,   10,   30,   20 >>

pst(piece_type) ==
    CASE piece_type = PAWN   -> PST_PAWN
      [] piece_type = KNIGHT -> PST_KNIGHT
      [] piece_type = BISHOP -> PST_BISHOP
      [] piece_type = ROOK   -> PST_ROOK
      [] piece_type = QUEEN  -> PST_QUEEN
      [] piece_type = KING   -> PST_KING

\* chess.square_rank, chess.square_file: squares are 0..63, a1 = 0, h8 = 63
square_rank(square) == square \div 8

square_file(square) == square % 8

-----------------------------------------------------------------------------
(* The rules engine: positions, moves, terminal conditions *)

\* a piece of board.piece_map(): << square, piece_type, color >>
Piece(square, piece_type, color) == << square, piece_type, color >>

Sq(file, rank) == rank * 8 + file

\* chess.Move as the search sees it: is it a capture, the type of the piece on
\* its destination square (0: the square is empty, as for en passant and for
\* every move that is no capture), and the position it leads to
Quiet(to) == [cap |-> FALSE, victim |-> 0, to |-> to]

Capture(victim, to) == [cap |-> TRUE, victim |-> victim, to |-> to]

\* Python's None where a move is expected
None == [cap |-> FALSE, victim |-> 0, to |-> "None"]

KK == { Piece(Sq(4, 0), KING, WHITE), Piece(Sq(4, 7), KING, BLACK) }

PmEven == KK \cup { Piece(Sq(4, 3), PAWN, WHITE), Piece(Sq(4, 6), PAWN, BLACK) }

PmUp == PmEven \cup { Piece(Sq(5, 2), KNIGHT, WHITE) }

PmDown == PmEven \cup { Piece(Sq(2, 5), BISHOP, BLACK) }

PmRooks == PmEven \cup { Piece(Sq(0, 0), ROOK, WHITE), Piece(Sq(0, 7), ROOK, BLACK) }

PmRookDown == PmEven \cup { Piece(Sq(0, 0), ROOK, BLACK) }

PmQueenUp == PmEven \cup { Piece(Sq(3, 3), QUEEN, WHITE) }

PmMateO == KK \cup { Piece(Sq(4, 6), QUEEN, WHITE), Piece(Sq(4, 5), ROOK, WHITE) }

PmMateU == KK \cup { Piece(Sq(4, 1), QUEEN, BLACK), Piece(Sq(4, 2), ROOK, BLACK) }

Node(us, check, over, pm, moves) ==
    [us |-> us, check |-> check, over |-> over, pm |-> pm, moves |-> moves]

\* The positions below the root, written with the root's mover as White; "us"
\* says whether the root's mover is the side to move.  A checkmate is a check
\* with no legal move, a stalemate is no check and no legal move, and only
\* these two have no legal move; a capture leads to a position with fewer
\* pieces to capture, so capture sequences end.
NodeOf(id) ==
    CASE id = "MateO"  -> Node(FALSE, TRUE,  "checkmate", PmMateO, << >>)
      [] id = "MateU"  -> Node(TRUE,  TRUE,  "checkmate", PmMateU, << >>)
      [] id = "StaleO" -> Node(FALSE, FALSE, "stalemate", PmQueenUp, << >>)
      [] id = "DrawO"  -> Node(FALSE, FALSE, "insufficient", KK, << Quiet("DrawU") >>)
      [] id = "DrawU"  -> Node(TRUE,  FALSE, "insufficient", KK, << Quiet("DrawO") >>)
      [] id = "QO"     -> Node(FALSE, FALSE, "none", PmEven, << Quiet("QU") >>)
      [] id = "QU"     -> Node(TRUE,  FALSE, "none", PmEven, << Quiet("QO") >>)
      [] id = "GoodO"  -> Node(FALSE, FALSE, "none", PmUp, << Quiet("GoodU") >>)
      [] id = "GoodU"  -> Node(TRUE,  FALSE, "none", PmUp, << Quiet("GoodO") >>)
      [] id = "BadO"   -> Node(FALSE, FALSE, "none", PmDown, << Quiet("BadU") >>)
      [] id = "BadU"   -> Node(TRUE,  FALSE, "none", PmDown, << Quiet("BadO") >>)
      [] id = "HangO"  -> Node(FALSE, FALSE, "none", PmQueenUp,
                               << Quiet("GoodU"), Capture(QUEEN, "BadU") >>)
      [] id = "TradeO" -> Node(FALSE, FALSE, "none", PmRooks,
                               << Quiet("QU"), Capture(ROOK, "TradeU") >>)
      [] id = "TradeU" -> Node(TRUE,  FALSE, "none", PmRookDown,
                               << Quiet("BadO"), Capture(ROOK, "QO") >>)
      [] id = "LoseO"  -> Node(FALSE, FALSE, "none", PmEven,
                               << Quiet("QU"), Capture(PAWN, "MateU") >>)
      [] id = "LoseQO" -> Node(FALSE, FALSE, "none", PmEven,
                               << Quiet("QU"), Quiet("MateU") >>)
      [] id = "WinO"   -> Node(FALSE, FALSE, "none", PmEven, << Quiet("WinU") >>)
      [] id = "WinU"   -> Node(TRUE,  FALSE, "none", PmEven,
                               << Quiet("QO"), Quiet("MateO") >>)
      [] id = "ChkO"   -> Node(FALSE, TRUE,  "none", PmUp,
                               << Quiet("QU"), Capture(KNIGHT, "BadU") >>)

\* the moves a root position may have
RootMenu ==
    { Quiet("MateO"), Capture(PAWN, "MateO"), Quiet("QO"), Capture(0, "QO"),
      Quiet("GoodO"), Quiet("HangO"), Capture(ROOK, "TradeO"), Quiet("LoseO"),
      Quiet("LoseQO"), Quiet("WinO"), Quiet("StaleO"), Quiet("DrawO"),
      Quiet("ChkO") }

\* the sequences of pairwise distinct elements of S of length 0..n, in every order
RECURSIVE DistinctSeqs(_, _)
DistinctSeqs(S, n) ==
    IF n = 0 THEN { << >> }
    ELSE LET shorter == DistinctSeqs(S, n - 1)
         IN  shorter \cup
             UNION { { Append(q, m) : m \in { x \in S : \A i \in 1..Len(q) : q[i] # x } } :
                     q \in { r \in shorter : Len(r) = n - 1 } }

\* the root positions: side to move, in check or not, the legal moves in the
\* order the move generator yields them
Games ==
    [turn : {WHITE, BLACK}, check : BOOLEAN, moves : DistinctSeqs(RootMenu, MaxRootMoves)]

\* the mirror image of a piece: colour swapped, rank r -> 7 - r
Flip(piece) ==
    Piece(Sq(square_file(piece[1]), 7 - square_rank(piece[1])), piece[2], ~piece[3])

\* the position the board is in: the root, or the position its last move leads to
Position(g, b) ==
    IF b.move_stack = << >>
    THEN [turn  |-> g.turn,
          check |-> g.check,
          over  |-> IF g.moves # << >> THEN "none"
                    ELSE IF g.check THEN "checkmate" ELSE "stalemate",
          pm    |-> IF g.turn = WHITE THEN PmEven ELSE { Flip(x) : x \in PmEven },
          moves |-> g.moves]
    ELSE LET n == NodeOf(b.move_stack[Len(b.move_stack)].to)
         IN  [turn  |-> IF n.us THEN g.turn ELSE ~g.turn,
              check |-> n.check,
              over  |-> n.over,
              pm    |-> IF g.turn = WHITE THEN n.pm ELSE { Flip(x) : x \in n.pm },
              moves |-> n.moves]

\* board.push(move), board.pop()
push(b, move) == [b EXCEPT !.move_stack = Append(@, move)]

pop(b) == [b EXCEPT !.move_stack = SubSeq(@, 1, Len(@) - 1)]

is_check(p) == p.check

is_checkmate(p) == p.over = "checkmate"

is_stalemate(p) == p.over = "stalemate"

is_insufficient_material(p) == p.over = "insufficient"

\* checkmate, stalemate, insufficient material, or a move-count or repetition draw
is_game_over(p) == p.over # "none"

is_capture(p, move) == move.cap

\* board.piece_at(move.to_square): 0 for no piece
piece_at(p, move) == move.victim

-----------------------------------------------------------------------------
(* evaluate *)

\* PieceTerm reading the table for Black at the index it uses for White
PieceTerm_unmirrored(piece) ==
    LET square     == piece[1]
        piece_type == piece[2]
        table_idx  == (7 - square_rank(square)) * 8 + square_file(square)
    IN  PIECE_VALUES[piece_type] + pst(piece_type)[table_idx + 1]

\* material + positional value of one piece, as added (White) or subtracted (Black)
PieceTerm(piece) ==
    LET square     == piece[1]
        piece_type == piece[2]
        color      == piece[3]
        material   == PIECE_VALUES[piece_type]
        rank       == square_rank(square)
        file       == square_file(square)
    IN  IF color = WHITE
        THEN LET table_idx == (7 - rank) * 8 + file
             IN  material + pst(piece_type)[table_idx + 1]
        ELSE LET rank_w    == 7 - rank
                 table_idx == (7 - rank_w) * 8 + file
             IN  material + pst(piece_type)[table_idx + 1]

RECURSIVE SumPieces(_)
SumPieces(pm) ==
    IF pm = {} THEN 0
    ELSE LET piece == CHOOSE x \in pm : TRUE
         IN  (IF piece[3] = WHITE THEN PieceTerm(piece) ELSE 0 - PieceTerm(piece))
             + SumPieces(pm \ {piece})

\* evaluate with the mate signs exchanged
evaluate_mate_sign(p) ==
    IF is_checkmate(p)
    THEN IF p.turn = WHITE THEN MATE ELSE 0 - MATE
    ELSE IF is_stalemate(p) \/ is_insufficient_material(p)
    THEN 0
    ELSE SumPieces(p.pm)

\* evaluate without the draw test
evaluate_no_draw(p) ==
    IF is_checkmate(p)
    THEN IF p.turn = WHITE THEN 0 - MATE ELSE MATE
    ELSE SumPieces(p.pm)

evaluate(p) ==
    IF is_checkmate(p)
    THEN IF p.turn = WHITE THEN 0 - MATE ELSE MATE
    ELSE IF is_stalemate(p) \/ is_insufficient_material(p)
    THEN 0
    ELSE SumPieces(p.pm)

-----------------------------------------------------------------------------
(* Move ordering: list.sort(key=..., reverse=True) is stable *)

\* the place of element i once the list is sorted by descending key, equal keys
\* keeping their order
Place(keys, i) ==
    1 + Cardinality({ j \in 1..Len(keys) :
                        keys[j] > keys[i] \/ (keys[j] = keys[i] /\ j < i) })

SortDescending(moves, keys) ==
    [k \in 1..Len(moves) |-> moves[CHOOSE i \in 1..Len(moves) : Place(keys, i) = k]]

\* quiescence: 0 if not board.piece_at(m.to_square) else PIECE_VALUES[...]
mvv_key(p, m) ==
    IF piece_at(p, m) = 0 THEN 0 ELSE PIECE_VALUES[piece_at(p, m)]

\* move_score without the 1000 that puts every capture first
move_score_victim_only(p, move) ==
    IF is_capture(p, move)
    THEN LET victim == piece_at(p, move)
         IN  IF victim # 0 THEN PIECE_VALUES[victim] ELSE 0
    ELSE 0

\* negamax: move_score
move_score(p, move) ==
    IF is_capture(p, move)
    THEN LET victim == piece_at(p, move)
             val    == IF victim # 0 THEN PIECE_VALUES[victim] ELSE 0
         IN  1000 + val
    ELSE 0

\* get_best_move: 1 if board.is_capture(m) else 0
root_key(p, m) == IF is_capture(p, m) THEN 1 ELSE 0

\* moves_to_search with every legal move a candidate, in check or not
moves_to_search_all(p) ==
    SortDescending(p.moves, [i \in 1..Len(p.moves) |-> mvv_key(p, p.moves[i])])

\* quiescence: the candidate moves, ordered
moves_to_search(p) ==
    LET in_check == is_check(p)
        cands    == IF in_check THEN p.moves
                    ELSE SelectSeq(p.moves, LAMBDA m : is_capture(p, m))
    IN  SortDescending(cands, [i \in 1..Len(cands) |-> mvv_key(p, cands[i])])

\* negamax: the legal moves, ordered
negamax_moves(p) ==
    SortDescending(p.moves, [i \in 1..Len(p.moves) |-> move_score(p, p.moves[i])])

\* get_best_move: the root moves, ordered
root_moves(p) ==
    SortDescending(p.moves, [i \in 1..Len(p.moves) |-> root_key(p, p.moves[i])])

-----------------------------------------------------------------------------
(* The call stack *)

Frame(fn, depth, a, b) ==
    [fn |-> fn, depth |-> depth, alpha |-> a, beta |-> b, moves |-> << >>,
     i |-> 0, max_score |-> 0 - Inf, pc |-> "enter"]

Top == frames[Len(frames)]

Callers == SubSeq(frames, 1, Len(frames) - 1)

Running(fn, at) == frames # << >> /\ Top.fn = fn /\ Top.pc = at

\* the running activation returns v to its caller
Return(v) ==
    /\ frames' = Callers
    /\ ret' = v

\* the running activation goes on as f
Goto(f) == frames' = Append(Callers, f)

\* the running activation goes on as f and calls g
Call(f, g) == frames' = Append(Append(Callers, f), g)

\* the running activation is the call made from outside the search, or the
\* quiescence call whose value that call returns as its own
Outermost == \A k \in 1..Len(Callers) : Callers[k].pc = "tail"

\* the ways of leaving a call early seen so far, the new one added; an early
\* exit of the outermost call is noted
Exited(label) == exits \cup {label} \cup (IF Outermost THEN {"outermost"} ELSE {})

driver == << pc, legal_moves, idx, current_depth, alpha, beta, best_move,
             depth_best_move, depth_best_score, start_time, time_limit, now,
             result, scores, done_scores >>

-----------------------------------------------------------------------------
(* quiescence *)

\* stand_pat = self.evaluate(board), negated for Black to move
stand_pat(p) == IF p.turn = BLACK THEN 0 - evaluate(p) ELSE evaluate(p)

\* quiescence_enter returning stand_pat itself on the fail-high
quiescence_enter_fail_soft ==
    /\ Running("quiescence", "enter")
    /\ nodes_visited' = nodes_visited + 1
    /\ LET p        == Position(game, board)
           in_check == is_check(p)
           sp       == stand_pat(p)
       IN  IF ~in_check /\ sp >= Top.beta
           THEN /\ Return(sp)
                /\ exits' = Exited("stand_pat")
           ELSE /\ exits' = exits
                /\ Goto([Top EXCEPT
                           !.alpha = IF ~in_check /\ @ < sp THEN sp ELSE @,
                           !.moves = moves_to_search(p),
                           !.i     = 1,
                           !.pc    = "for"])
                /\ ret' = ret
    /\ UNCHANGED << previous, probe, out, game, board, driver >>

\* entry: count the node, stand pat unless in check, pick and order the candidates
quiescence_enter ==
    /\ Running("quiescence", "enter")
    /\ nodes_visited' = nodes_visited + 1
    /\ LET p        == Position(game, board)
           in_check == is_check(p)
           sp       == stand_pat(p)
       IN  IF ~in_check /\ sp >= Top.beta
           THEN /\ Return(Top.beta)
                /\ exits' = Exited("stand_pat")
           ELSE /\ exits' = exits
                /\ Goto([Top EXCEPT
                           !.alpha = IF ~in_check /\ @ < sp THEN sp ELSE @,
                           !.moves = moves_to_search(p),
                           !.i     = 1,
                           !.pc    = "for"])
                /\ ret' = ret
    /\ UNCHANGED << previous, probe, out, game, board, driver >>

\* quiescence_for that stays in its loop once the candidates are exhausted
quiescence_for_never_returns ==
    /\ Running("quiescence", "for")
    /\ IF Top.i <= Len(Top.moves)
       THEN /\ board' = push(board, Top.moves[Top.i])
            /\ Call([Top EXCEPT !.pc = "called"],
                    Frame("quiescence", 0, 0 - Top.beta, 0 - Top.alpha))
            /\ ret' = ret
       ELSE /\ UNCHANGED << frames, ret >>
            /\ board' = board
    /\ UNCHANGED << previous, probe, out, game, nodes_visited, driver, exits >>

\* for move in moves_to_search: board.push(move); self.quiescence(board, -beta, -alpha)
\* and, the list exhausted, return alpha
quiescence_for ==
    /\ Running("quiescence", "for")
    /\ IF Top.i <= Len(Top.moves)
       THEN /\ board' = push(board, Top.moves[Top.i])
            /\ Call([Top EXCEPT !.pc = "called"],
                    Frame("quiescence", 0, 0 - Top.beta, 0 - Top.alpha))
            /\ ret' = ret
       ELSE /\ Return(Top.alpha)
            /\ board' = board
    /\ UNCHANGED << previous, probe, out, game, nodes_visited, driver, exits >>

\* quiescence_resume with the cutoff test moved before board.pop(): the
\* fail-high return leaves the move on the board
quiescence_resume_return_before_pop ==
    /\ Running("quiescence", "called")
    /\ LET score == 0 - ret
       IN  IF score >= Top.beta
           THEN /\ Return(Top.beta)
                /\ board' = board
                /\ exits' = Exited("cutoff")
           ELSE /\ board' = pop(board)
                /\ exits' = exits
                /\ Goto([Top EXCEPT
                           !.alpha = IF score > @ THEN score ELSE @,
                           !.i     = @ + 1,
                           !.pc    = "for"])
                /\ ret' = ret
    /\ UNCHANGED << previous, probe, out, game, nodes_visited, driver >>

\* score = -(the call's value); board.pop(); beta cutoff or raise alpha
quiescence_resume ==
    /\ Running("quiescence", "called")
    /\ LET score == 0 - ret
       IN  /\ board' = pop(board)
           /\ IF score >= Top.beta
              THEN /\ Return(Top.beta)
                   /\ exits' = Exited("cutoff")
              ELSE /\ exits' = exits
                   /\ Goto([Top EXCEPT
                              !.alpha = IF score > @ THEN score ELSE @,
                              !.i     = @ + 1,
                              !.pc    = "for"])
                   /\ ret' = ret
    /\ UNCHANGED << previous, probe, out, game, nodes_visited, driver >>

-----------------------------------------------------------------------------
(* negamax *)

\* terminal_score with the remaining depth subtracted from the mate score
terminal_score_minus_depth(p, depth) ==
    IF is_checkmate(p) THEN 0 - MATE - depth ELSE 0

\* the value of a game-over position at remaining depth >= 1
terminal_score(p, depth) ==
    IF is_checkmate(p) THEN 0 - MATE + depth ELSE 0

\* entry: count the node; depth 0 goes to quiescence, a game-over position is
\* scored at once, otherwise the legal moves are ordered
negamax_enter ==
    /\ Running("negamax", "enter")
    /\ nodes_visited' = nodes_visited + 1
    /\ LET p == Position(game, board)
       IN  IF Top.depth = 0
           THEN /\ Call([Top EXCEPT !.pc = "tail"],
                        Frame("quiescence", 0, Top.alpha, Top.beta))
                /\ ret' = ret
                /\ exits' = exits
           ELSE IF is_game_over(p)
           THEN /\ Return(terminal_score(p, Top.depth))
                /\ exits' = exits
           ELSE /\ exits' = exits
                /\ Goto([Top EXCEPT
                           !.moves     = negamax_moves(p),
                           !.max_score = 0 - Inf,
                           !.i         = 1,
                           !.pc        = "for"])
                /\ ret' = ret
    /\ UNCHANGED << previous, probe, out, game, board, driver >>

\* return self.quiescence(board, alpha, beta)
negamax_tail ==
    /\ Running("negamax", "tail")
    /\ Return(ret)
    /\ UNCHANGED << previous, probe, out, game, board, nodes_visited, driver, exits >>

\* negamax_for handing the window down negated but not swapped
negamax_for_window_unswapped ==
    /\ Running("negamax", "for")
    /\ IF Top.i <= Len(Top.moves)
       THEN /\ board' = push(board, Top.moves[Top.i])
            /\ Call([Top EXCEPT !.pc = "called"],
                    Frame("negamax", Top.depth - 1, 0 - Top.alpha, 0 - Top.beta))
            /\ ret' = ret
       ELSE /\ Return(Top.max_score)
            /\ board' = board
    /\ UNCHANGED << previous, probe, out, game, nodes_visited, driver, exits >>

\* for move in legal_moves: board.push(move); self.negamax(board, depth - 1, -beta, -alpha)
\* and, the list exhausted, return max_score
negamax_for ==
    /\ Running("negamax", "for")
    /\ IF Top.i <= Len(Top.moves)
       THEN /\ board' = push(board, Top.moves[Top.i])
            /\ Call([Top EXCEPT !.pc = "called"],
                    Frame("negamax", Top.depth - 1, 0 - Top.beta, 0 - Top.alpha))
            /\ ret' = ret
       ELSE /\ Return(Top.max_score)
            /\ board' = board
    /\ UNCHANGED << previous, probe, out, game, nodes_visited, driver, exits >>

\* negamax_resume leaving the loop as soon as a move raises alpha
negamax_resume_break_on_raise ==
    /\ Running("negamax", "called")
    /\ LET score     == 0 - ret
           max_score == IF score > Top.max_score THEN score ELSE Top.max_score
           a         == IF max_score > Top.alpha THEN max_score ELSE Top.alpha
       IN  /\ board' = pop(board)
           /\ IF max_score > Top.alpha
              THEN /\ Return(max_score)
                   /\ exits' = Exited("break")
              ELSE /\ exits' = exits
                   /\ Goto([Top EXCEPT
                              !.max_score = max_score,
                              !.alpha     = a,
                              !.i         = @ + 1,
                              !.pc        = "for"])
                   /\ ret' = ret
    /\ UNCHANGED << previous, probe, out, game, nodes_visited, driver >>

\* negamax_resume leaving the loop by its break before board.pop()
negamax_resume_break_before_pop ==
    /\ Running("negamax", "called")
    /\ LET score     == 0 - ret
           max_score == IF score > Top.max_score THEN score ELSE Top.max_score
           a         == IF max_score > Top.alpha THEN max_score ELSE Top.alpha
       IN  IF a >= Top.beta
           THEN /\ Return(max_score)
                /\ board' = board
                /\ exits' = Exited("break")
           ELSE /\ board' = pop(board)
                /\ exits' = exits
                /\ Goto([Top EXCEPT
                           !.max_score = max_score,
                           !.alpha     = a,
                           !.i         = @ + 1,
                           !.pc        = "for"])
                /\ ret' = ret
    /\ UNCHANGED << previous, probe, out, game, nodes_visited, driver >>

\* negamax_resume without the break: the loop goes on to the next sibling
negamax_resume_no_break ==
    /\ Running("negamax", "called")
    /\ LET score     == 0 - ret
           max_score == IF score > Top.max_score THEN score ELSE Top.max_score
           a         == IF max_score > Top.alpha THEN max_score ELSE Top.alpha
       IN  /\ board' = pop(board)
           /\ exits' = exits
           /\ Goto([Top EXCEPT
                      !.max_score = max_score,
                      !.alpha     = a,
                      !.i         = @ + 1,
                      !.pc        = "for"])
           /\ ret' = ret
    /\ UNCHANGED << previous, probe, out, game, nodes_visited, driver >>

\* score = -(the call's value); board.pop(); update max_score and alpha; break
\* out of the loop, and so return max_score, once alpha >= beta
negamax_resume ==
    /\ Running("negamax", "called")
    /\ LET score     == 0 - ret
           max_score == IF score > Top.max_score THEN score ELSE Top.max_score
           a         == IF max_score > Top.alpha THEN max_score ELSE Top.alpha
       IN  /\ board' = pop(board)
           /\ IF a >= Top.beta
              THEN /\ Return(max_score)
                   /\ exits' = Exited("break")
              ELSE /\ exits' = exits
                   /\ Goto([Top EXCEPT
                              !.max_score = max_score,
                              !.alpha     = a,
                              !.i         = @ + 1,
                              !.pc        = "for"])
                   /\ ret' = ret
    /\ UNCHANGED << previous, probe, out, game, nodes_visited, driver >>

-----------------------------------------------------------------------------
(* get_best_move *)

\* time.time() - self.start_time > self.time_limit, the clock reading t
time_exceeded(t) == t - start_time > time_limit

\* the readings the clock can give: time never runs backwards, and is followed
\* until the budget of the running call is exceeded
Clock == now..(start_time + MaxClock)

\* fallback without the fallback: a timeout never takes the partial result
fallback_never(best, depth_best) == best

\* fallback without "and not best_move": a timeout takes the partial result
fallback_partial(best, depth_best) ==
    IF depth_best # None THEN depth_best ELSE best

\* if depth_best_move and not best_move: best_move = depth_best_move
fallback(best, depth_best) ==
    IF depth_best # None /\ best = None THEN depth_best ELSE best

\* adopt that keeps a best move once it has one
adopt_first(best, depth_best) == IF best # None THEN best ELSE depth_best

\* else: best_move = depth_best_move
adopt(best, depth_best) == depth_best

\* get_best_move_enter without "if not legal_moves: return None"
get_best_move_enter_unguarded ==
    /\ pc = "idle"
    /\ nodes_visited' = 0
    /\ start_time' = now
    /\ best_move' = None
    /\ alpha' = 0 - Inf
    /\ beta' = Inf
    /\ current_depth' = 1
    /\ legal_moves' = root_moves(Position(game, board))
    /\ result' = result
    /\ pc' = "while"
    /\ scores' = << >>
    /\ done_scores' = << >>
    /\ exits' = {}
    /\ UNCHANGED << previous, probe, out, game, board, frames, ret, idx, depth_best_move,
                    depth_best_score, time_limit, now >>

\* get_best_move_enter without the reset of nodes_visited
get_best_move_enter_keeps_nodes ==
    /\ pc = "idle"
    /\ nodes_visited' = nodes_visited
    /\ start_time' = now
    /\ best_move' = None
    /\ alpha' = 0 - Inf
    /\ beta' = Inf
    /\ current_depth' = 1
    /\ LET p == Position(game, board)
       IN  IF p.moves = << >>
           THEN /\ legal_moves' = << >>
                /\ result' = None
                /\ pc' = "done"
           ELSE /\ legal_moves' = root_moves(p)
                /\ result' = result
                /\ pc' = "while"
    /\ scores' = << >>
    /\ done_scores' = << >>
    /\ exits' = {}
    /\ UNCHANGED << previous, probe, out, game, board, frames, ret, idx, depth_best_move,
                    depth_best_score, time_limit, now >>

\* entry: reset the counter, take the start time, return None for no legal
\* move, else order the root moves
get_best_move_enter ==
    /\ pc = "idle"
    /\ nodes_visited' = 0
    /\ start_time' = now
    /\ best_move' = None
    /\ alpha' = 0 - Inf
    /\ beta' = Inf
    /\ current_depth' = 1
    /\ LET p == Position(game, board)
       IN  IF p.moves = << >>
           THEN /\ legal_moves' = << >>
                /\ result' = None
                /\ pc' = "done"
           ELSE /\ legal_moves' = root_moves(p)
                /\ result' = result
                /\ pc' = "while"
    /\ scores' = << >>
    /\ done_scores' = << >>
    /\ exits' = {}
    /\ UNCHANGED << previous, probe, out, game, board, frames, ret, idx, depth_best_move,
                    depth_best_score, time_limit, now >>

\* get_best_move_while without the reset of alpha and beta
get_best_move_while_keeps_window ==
    /\ pc = "while"
    /\ IF current_depth <= max_depth
       THEN /\ depth_best_move' = None
            /\ depth_best_score' = 0 - Inf
            /\ alpha' = alpha
            /\ beta' = beta
            /\ idx' = 1
            /\ scores' = << >>
            /\ pc' = "for"
            /\ result' = result
       ELSE /\ result' = best_move
            /\ pc' = "done"
            /\ UNCHANGED << depth_best_move, depth_best_score, alpha, beta, idx, scores >>
    /\ UNCHANGED << previous, probe, out, game, board, frames, ret, legal_moves, current_depth, best_move,
                    nodes_visited, start_time, time_limit, now, done_scores, exits >>

\* while current_depth <= max_depth: reset the depth's best and the window;
\* the loop over, return best_move
get_best_move_while ==
    /\ pc = "while"
    /\ IF current_depth <= max_depth
       THEN /\ depth_best_move' = None
            /\ depth_best_score' = 0 - Inf
            /\ alpha' = 0 - Inf
            /\ beta' = Inf
            /\ idx' = 1
            /\ scores' = << >>
            /\ pc' = "for"
            /\ result' = result
       ELSE /\ result' = best_move
            /\ pc' = "done"
            /\ UNCHANGED << depth_best_move, depth_best_score, alpha, beta, idx, scores >>
    /\ UNCHANGED << previous, probe, out, game, board, frames, ret, legal_moves, current_depth, best_move,
                    nodes_visited, start_time, time_limit, now, done_scores, exits >>

\* get_best_move_for reading the clock before it searches the root move
get_best_move_for_checks_first ==
    /\ pc = "for"
    /\ \E t \in Clock :
         /\ now' = t
         /\ IF idx <= Len(legal_moves) /\ ~time_exceeded(t)
            THEN /\ board' = push(board, legal_moves[idx])
                 /\ frames' = << Frame("negamax", current_depth - 1, 0 - beta, 0 - alpha) >>
                 /\ pc' = "called"
            ELSE /\ pc' = "after_for"
                 /\ UNCHANGED << board, frames >>
    /\ UNCHANGED << previous, probe, out, game, ret, legal_moves, idx, current_depth, alpha, beta, best_move,
                    depth_best_move, depth_best_score, nodes_visited, start_time,
                    time_limit, result, scores, done_scores, exits >>

\* for move in legal_moves: board.push(move); self.negamax(board, current_depth - 1, -beta, -alpha)
get_best_move_for ==
    /\ pc = "for"
    /\ IF idx <= Len(legal_moves)
       THEN /\ board' = push(board, legal_moves[idx])
            /\ frames' = << Frame("negamax", current_depth - 1, 0 - beta, 0 - alpha) >>
            /\ pc' = "called"
       ELSE /\ pc' = "after_for"
            /\ UNCHANGED << board, frames >>
    /\ UNCHANGED << previous, probe, out, game, ret, legal_moves, idx, current_depth, alpha, beta, best_move,
                    depth_best_move, depth_best_score, nodes_visited, start_time,
                    time_limit, now, result, scores, done_scores, exits >>

\* get_best_move_resume keeping the lowest-scoring root move
get_best_move_resume_lowest ==
    /\ pc = "called"
    /\ frames = << >>
    /\ LET score == 0 - ret
       IN  /\ board' = pop(board)
           /\ scores' = Append(scores, score)
           /\ IF score < depth_best_score \/ depth_best_move = None
              THEN /\ depth_best_score' = score
                   /\ depth_best_move' = legal_moves[idx]
              ELSE UNCHANGED << depth_best_score, depth_best_move >>
           /\ alpha' = IF score > alpha THEN score ELSE alpha
    /\ \E t \in Clock :
         /\ now' = t
         /\ IF time_exceeded(t)
            THEN /\ pc' = "after_for"
                 /\ idx' = idx
                 /\ exits' = exits \cup {"timeout"}
            ELSE /\ pc' = "for"
                 /\ idx' = idx + 1
                 /\ exits' = exits
    /\ UNCHANGED << previous, probe, out, game, frames, ret, legal_moves, current_depth, beta, best_move,
                    nodes_visited, start_time, time_limit, result, done_scores >>

\* score = -(the call's value); board.pop(); update the depth's best and alpha;
\* read the clock and break if the budget is exceeded
get_best_move_resume ==
    /\ pc = "called"
    /\ frames = << >>
    /\ LET score == 0 - ret
       IN  /\ board' = pop(board)
           /\ scores' = Append(scores, score)
           /\ IF score > depth_best_score
              THEN /\ depth_best_score' = score
                   /\ depth_best_move' = legal_moves[idx]
              ELSE UNCHANGED << depth_best_score, depth_best_move >>
           /\ alpha' = IF score > alpha THEN score ELSE alpha
    /\ \E t \in Clock :
         /\ now' = t
         /\ IF time_exceeded(t)
            THEN /\ pc' = "after_for"
                 /\ idx' = idx
                 /\ exits' = exits \cup {"timeout"}
            ELSE /\ pc' = "for"
                 /\ idx' = idx + 1
                 /\ exits' = exits
    /\ UNCHANGED << previous, probe, out, game, frames, ret, legal_moves, current_depth, beta, best_move,
                    nodes_visited, start_time, time_limit, result, done_scores >>

\* after the for loop: read the clock again; budget exceeded: keep best_move,
\* or take the depth's best if there is none, and return; otherwise adopt the
\* depth's best and go one deeper
get_best_move_after_for ==
    /\ pc = "after_for"
    /\ \E t \in Clock :
         /\ now' = t
         /\ IF time_exceeded(t)
            THEN /\ best_move' = fallback(best_move, depth_best_move)
                 /\ result' = fallback(best_move, depth_best_move)
                 /\ pc' = "done"
                 /\ current_depth' = current_depth
                 /\ done_scores' = done_scores
            ELSE /\ best_move' = adopt(best_move, depth_best_move)
                 /\ result' = result
                 /\ current_depth' = current_depth + 1
                 /\ pc' = "while"
                 /\ done_scores' = Append(done_scores, scores)
    /\ UNCHANGED << previous, probe, out, game, board, frames, ret, legal_moves, idx, alpha, beta,
                    depth_best_move, depth_best_score, nodes_visited, start_time,
                    time_limit, scores, exits >>

-----------------------------------------------------------------------------
(* The specification *)

\* no previous call, no call under test
NoCall == [calls |-> 0]

NoProbe == [fn |-> "none"]

NoOut == [done |-> FALSE]

\* StrongPythonEngine.__init__ has run and nothing else
Constructed ==
    /\ board = [move_stack |-> << >>]
    /\ frames = << >>
    /\ ret = 0
    /\ pc = "idle"
    /\ legal_moves = << >>
    /\ idx = 0
    /\ current_depth = 0
    /\ alpha = 0
    /\ beta = 0
    /\ best_move = None
    /\ depth_best_move = None
    /\ depth_best_score = 0
    /\ nodes_visited = 0
    /\ start_time = 0
    /\ now = 0
    /\ result = None
    /\ scores = << >>
    /\ done_scores = << >>
    /\ exits = {}

\* StrongPythonEngine(time_limit) constructed, the board at a root position
Init ==
    /\ game \in Games
    /\ time_limit \in 0..MaxTimeLimit
    /\ Constructed
    /\ previous = NoCall
    /\ probe = NoProbe
    /\ out = NoOut

Next ==
    \/ get_best_move_enter
    \/ get_best_move_while
    \/ get_best_move_for
    \/ get_best_move_resume
    \/ get_best_move_after_for
    \/ negamax_enter
    \/ negamax_tail
    \/ negamax_for
    \/ negamax_resume
    \/ quiescence_enter
    \/ quiescence_for
    \/ quiescence_resume

Spec == Init /\ [][Next]_vars

-----------------------------------------------------------------------------
(* evaluate called on its own, as analyze_moves calls it *)

\* where the two kings stand
KingPlacements == { << Sq(4, 0), Sq(4, 7) >>, << Sq(6, 0), Sq(2, 7) >> }

\* the pieces a position may hold besides the kings: no pawn on a back rank
ExtraPieces ==
    { Piece(sq, t, c) : sq \in 0..63, t \in PAWN..QUEEN, c \in {WHITE, BLACK} }
    \ { Piece(sq, PAWN, c) : sq \in (0..7) \cup (56..63), c \in {WHITE, BLACK} }

\* the sets of at most n pieces of S
RECURSIVE PieceSets(_, _)
PieceSets(S, n) ==
    IF n = 0 THEN { {} }
    ELSE LET smaller == PieceSets(S, n - 1)
         IN  smaller \cup { ps \cup {x} : ps \in smaller, x \in S }

\* no two pieces on one square
OnePerSquare(pm) == \A x, y \in pm : x[1] = y[1] => x = y

\* the positions handed to evaluate: side to move, terminal condition, pieces
EvalPosition(t, o, pm) ==
    [turn |-> t, check |-> o = "checkmate", over |-> o, pm |-> pm, moves |-> << >>]

\* score = self.engine.evaluate(board)
evaluate_call ==
    /\ probe.fn = "evaluate"
    /\ ~out.done
    /\ out' = [done |-> TRUE, value |-> evaluate(probe.p)]
    /\ UNCHANGED << previous, probe, game, board, frames, ret, nodes_visited, driver, exits >>

InitEval ==
    /\ game = [turn |-> WHITE, check |-> FALSE, moves |-> << >>]
    /\ time_limit = 0
    /\ Constructed
    /\ previous = NoCall
    /\ \E k \in KingPlacements, ps \in PieceSets(ExtraPieces, MaxExtraPieces) :
         LET pm == { Piece(k[1], KING, WHITE), Piece(k[2], KING, BLACK) } \cup ps
         IN  /\ OnePerSquare(pm)
             /\ \E t \in {WHITE, BLACK} :
                \E o \in {"none", "checkmate", "stalemate", "insufficient", "other"} :
                  probe = [fn |-> "evaluate", p |-> EvalPosition(t, o, pm)]
    /\ out = NoOut

NextEval == evaluate_call

SpecEval == InitEval /\ [][NextEval]_vars

-----------------------------------------------------------------------------
(* negamax and quiescence called on their own: first with the full window,
   then on the same position and depth with the window given *)

\* the positions called on
ProbeGames ==
    [turn : {WHITE, BLACK}, check : BOOLEAN, moves : DistinctSeqs(RootMenu, MaxProbeMoves)]

\* the values alpha and beta are drawn from
WindowBounds == { 0 - Inf, -400, 0, 100, 400, Inf }

\* self.negamax(board, depth, float('-inf'), float('inf')), and the like for quiescence
probe_full_window ==
    /\ probe.fn \in {"negamax", "quiescence"}
    /\ probe.stage = "new"
    /\ frames' = << Frame(probe.fn, probe.depth, 0 - Inf, Inf) >>
    /\ probe' = [probe EXCEPT !.stage = "full"]
    /\ UNCHANGED << previous, out, game, board, ret, nodes_visited, driver, exits >>

\* the full-window call has returned: self.negamax(board, depth, alpha, beta)
probe_window ==
    /\ probe.fn \in {"negamax", "quiescence"}
    /\ probe.stage = "full"
    /\ frames = << >>
    /\ previous' = [calls |-> 1, value |-> ret, exits |-> exits]
    /\ frames' = << Frame(probe.fn, probe.depth, probe.alpha, probe.beta) >>
    /\ exits' = {}
    /\ probe' = [probe EXCEPT !.stage = "window"]
    /\ UNCHANGED << out, game, board, ret, nodes_visited, driver >>

\* the call with the window given has returned
probe_return ==
    /\ probe.fn \in {"negamax", "quiescence"}
    /\ probe.stage = "window"
    /\ frames = << >>
    /\ out' = [done |-> TRUE, value |-> ret, exits |-> exits]
    /\ probe' = [probe EXCEPT !.stage = "done"]
    /\ UNCHANGED << previous, game, board, frames, ret, nodes_visited, driver, exits >>

InitWindow ==
    /\ game \in ProbeGames
    /\ time_limit = 0
    /\ Constructed
    /\ previous = NoCall
    /\ \E a, b \in WindowBounds :
         /\ a <= b
         /\ \/ \E d \in 0..max_depth :
                 probe = [fn |-> "negamax", depth |-> d, alpha |-> a, beta |-> b,
                          stage |-> "new"]
            \/ probe = [fn |-> "quiescence", depth |-> 0, alpha |-> a, beta |-> b,
                        stage |-> "new"]
    /\ out = NoOut

NextWindow ==
    \/ probe_full_window
    \/ probe_window
    \/ probe_return
    \/ quiescence_enter
    \/ quiescence_for
    \/ quiescence_resume
    \/ negamax_enter
    \/ negamax_tail
    \/ negamax_for
    \/ negamax_resume

SpecWindow == InitWindow /\ [][NextWindow]_vars

-----------------------------------------------------------------------------
(* negamax called once with the full window, on the positions get_best_move
   is called on *)

\* self.negamax(board, depth, alpha, beta) or self.quiescence(board, alpha, beta),
\* not preceded by another call
probe_call ==
    /\ probe.fn \in {"negamax", "quiescence"}
    /\ probe.stage = "single"
    /\ frames' = << Frame(probe.fn, probe.depth, probe.alpha, probe.beta) >>
    /\ probe' = [probe EXCEPT !.stage = "window"]
    /\ UNCHANGED << previous, out, game, board, ret, nodes_visited, driver, exits >>

InitFull ==
    /\ game \in Games
    /\ time_limit = 0
    /\ Constructed
    /\ previous = NoCall
    /\ \E d \in 0..max_depth :
         probe = [fn |-> "negamax", depth |-> d, alpha |-> 0 - Inf, beta |-> Inf,
                  stage |-> "single"]
    /\ out = NoOut

NextFull ==
    \/ probe_call
    \/ probe_return
    \/ quiescence_enter
    \/ quiescence_for
    \/ quiescence_resume
    \/ negamax_enter
    \/ negamax_tail
    \/ negamax_for
    \/ negamax_resume

SpecFull == InitFull /\ [][NextFull]_vars

-----------------------------------------------------------------------------
(* get_best_move called a second time on the same engine and position *)

\* the first call has returned; what it returned, where it stopped and its node
\* count are noted, and get_best_move is called again
get_best_move_again ==
    /\ pc = "done"
    /\ previous = NoCall
    /\ previous' = [calls |-> 1, result |-> result, depth |-> current_depth,
                    searched |-> Len(scores), nodes |-> nodes_visited]
    /\ pc' = "idle"
    /\ UNCHANGED << probe, out, game, board, frames, ret, legal_moves, idx, current_depth,
                    alpha, beta, best_move, depth_best_move, depth_best_score,
                    nodes_visited, start_time, time_limit, now, result, scores,
                    done_scores, exits >>

InitTwoCalls ==
    /\ game \in ProbeGames
    /\ time_limit \in 0..MaxTimeLimit
    /\ Constructed
    /\ previous = NoCall
    /\ probe = NoProbe
    /\ out = NoOut

NextTwoCalls ==
    \/ Next
    \/ get_best_move_again

SpecTwoCalls == InitTwoCalls /\ [][NextTwoCalls]_vars

-----------------------------------------------------------------------------
(* quiescence called once, and run to its end: the interpreter keeps taking
   the next step of the call as long as there is one *)

InitQuiescence ==
    /\ game \in ProbeGames
    /\ time_limit = 0
    /\ Constructed
    /\ previous = NoCall
    /\ \E b \in WindowBounds :
         /\ b >= 0
         /\ probe = [fn |-> "quiescence", depth |-> 0, alpha |-> 0 - b, beta |-> b,
                     stage |-> "single"]
    /\ out = NoOut

NextQuiescence ==
    \/ probe_call
    \/ probe_return
    \/ quiescence_enter
    \/ quiescence_for
    \/ quiescence_resume

SpecQuiescence == InitQuiescence /\ [][NextQuiescence]_vars /\ WF_vars(NextQuiescence)

-----------------------------------------------------------------------------
(* AIChessPlayer.get_move and the language model it asks *)

\* a move as the language model writes it: in SAN, in UCI, or not a move at all
San(m) == [notation |-> "san", move |-> m]

Uci(m) == [notation |-> "uci", move |-> m]

Garbage == [notation |-> "none", move |-> None]

\* a well-formed move that is not legal in any position of the model
Illegal == Quiet("Nowhere")

\* list(board.legal_moves), as a set
legal_move_set(p) == { p.moves[i] : i \in 1..Len(p.moves) }

\* what the language model may name on position p
Names(p) ==
    { San(m) : m \in legal_move_set(p) } \cup { Uci(m) : m \in legal_move_set(p) }
        \cup { Uci(Illegal), Garbage }

\* the sequences over S of length 0..n
RECURSIVE SeqsUpTo(_, _)
SeqsUpTo(S, n) ==
    IF n = 0 THEN { << >> }
    ELSE LET shorter == SeqsUpTo(S, n - 1)
         IN  shorter \cup { Append(q, x) : q \in { r \in shorter : Len(r) = n - 1 }, x \in S }

\* a response text: the empty string, text that is not JSON, JSON that is not an
\* object, or a JSON object with its "tool" and its "args"; ok says that "args"
\* has the shape the tool's code reads (an object; "moves" a list of strings)
Response(kind, tool, ok, names) ==
    [kind |-> kind, tool |-> tool, ok |-> ok, names |-> names]

Empty == Response("empty", "none", FALSE, << >>)

Responses(p) ==
    { Empty, Response("text", "none", FALSE, << >>), Response("array", "none", FALSE, << >>) }
        \cup { Response("object", "other", ok, << >>) : ok \in BOOLEAN }
        \cup { Response("object", t, FALSE, << >>) : t \in {"make_move", "analyze_moves"} }
        \cup { Response("object", "make_move", TRUE, q) : q \in SeqsUpTo(Names(p), 1) }
        \cup { Response("object", "analyze_moves", TRUE, q) :
               q \in SeqsUpTo(Names(p), MaxCandidates) }

\* call_llm(full_prompt, json_mode=True): the empty string without an API key,
\* and otherwise whatever text the language model sent, or the empty string
\* after an error
call_llm(key, p) == IF ~key THEN { Empty } ELSE Responses(p)

\* json.loads(response) followed by action.get("tool"), action.get("args", {})
\* and the tool's reading of its args raises an exception
raises(response) ==
    \/ response.kind \in {"empty", "text", "array"}
    \/ response.tool \in {"make_move", "analyze_moves"} /\ ~response.ok

\* move_san in moves_map
in_moves_map(p, name) == name.notation = "san" /\ name.move \in legal_move_set(p)

\* move_san in legal_moves_list
in_legal_moves_list(p, name) == name.notation = "uci" /\ name.move \in legal_move_set(p)

\* args.get("move")
move_san(response) == IF response.names = << >> THEN Garbage ELSE response.names[1]

\* the analyze_moves loop: each candidate that parses as SAN or as UCI to a
\* legal move is pushed, evaluated and popped; the others are "Invalid Move"
analyze_moves(g, b, candidates) ==
    [i \in 1..Len(candidates) |->
        LET name == candidates[i]
        IN  IF name.notation # "none" /\ name.move \in legal_move_set(Position(g, b))
            THEN [name |-> name, valid |-> TRUE,
                  score |-> evaluate(Position(g, push(b, name.move)))]
            ELSE [name |-> name, valid |-> FALSE, score |-> 0]]

\* the activation of get_move; calls counts the call_llm calls made, up to
\* max_turns + 1
PlayerFrame(at) ==
    [fn |-> "get_move", pc |-> at, current_turn |-> 0, prompt_history |-> << >>,
     calls |-> 0]

\* move = ai_agent.get_move(board): the prompt is built, current_turn = 0
get_move_enter ==
    /\ probe.fn = "get_move"
    /\ probe.stage = "single"
    /\ frames' = << PlayerFrame("while") >>
    /\ probe' = [probe EXCEPT !.stage = "running"]
    /\ UNCHANGED << previous, out, game, board, ret, nodes_visited, driver, exits >>

\* get_move returns move
get_move_return(move) ==
    /\ frames' = Callers
    /\ out' = [done |-> TRUE, value |-> move, calls |-> Top.calls]
    /\ probe' = [probe EXCEPT !.stage = "done"]

\* while current_turn < max_turns: ... ; after the loop the random fallback
get_move_while ==
    /\ Running("get_move", "while")
    /\ IF Top.current_turn < max_turns
       THEN /\ Goto([Top EXCEPT !.pc = "try"])
            /\ UNCHANGED << probe, out >>
       ELSE \E m \in legal_move_set(Position(game, board)) : get_move_return(m)
    /\ UNCHANGED << previous, game, board, ret, nodes_visited, driver, exits >>

\* the body of the loop: the try block with its returns and its continue, and
\* the except clause, which passes
get_move_try ==
    /\ Running("get_move", "try")
    /\ \E response \in call_llm(probe.key, Position(game, board)) :
         LET p == Position(game, board)
             called == [Top EXCEPT !.calls = IF @ > max_turns THEN @ ELSE @ + 1]
         IN  IF raises(response)
             THEN /\ Goto([called EXCEPT !.pc = "while"])
                  /\ UNCHANGED << probe, out >>
             ELSE IF response.tool = "make_move"
             THEN IF in_moves_map(p, move_san(response))
                     \/ in_legal_moves_list(p, move_san(response))
                  THEN get_move_return(move_san(response).move)
                  ELSE \E m \in legal_move_set(p) : get_move_return(m)
             ELSE IF response.tool = "analyze_moves"
             THEN /\ Goto([called EXCEPT
                             !.pc = "while",
                             !.prompt_history =
                                 Append(@, [ai |-> response,
                                            tool_output |->
                                                analyze_moves(game, board, response.names)]),
                             !.current_turn = @ + 1])
                  /\ UNCHANGED << probe, out >>
             ELSE \E m \in legal_move_set(p) : get_move_return(m)
    /\ UNCHANGED << previous, game, board, ret, nodes_visited, driver, exits >>

\* get_move is called on a position of a game that is not over, with or
\* without an API key in the environment
InitPlayer ==
    /\ game \in { g \in ProbeGames : g.moves # << >> }
    /\ time_limit = 0
    /\ Constructed
    /\ previous = NoCall
    /\ \E key \in BOOLEAN : probe = [fn |-> "get_move", key |-> key, stage |-> "single"]
    /\ out = NoOut

NextPlayer ==
    \/ get_move_enter
    \/ get_move_while
    \/ get_move_try

\* the interpreter keeps taking the next step of get_move as long as there is one
SpecPlayer == InitPlayer /\ [][NextPlayer]_vars /\ WF_vars(NextPlayer)

-----------------------------------------------------------------------------
(* What the claims speak of *)

\* applying the root move m delivers checkmate
IsMating(m) == NodeOf(m.to).over = "checkmate"

MatingIndices == { i \in 1..Len(game.moves) : IsMating(game.moves[i]) }

ExactlyOneMate == Cardinality(MatingIndices) = 1

MatingMove == game.moves[CHOOSE i \in MatingIndices : TRUE]

\* the search has returned
Done == pc = "done"

\* the search returned because it found the budget exceeded
TimedOut == pc = "done" /\ game.moves # << >> /\ current_depth <= max_depth

\* the search returned after completing every depth up to max_depth
Completed == pc = "done" /\ current_depth > max_depth

\* the first index of a highest score of sc
ArgMaxFirst(sc) ==
    CHOOSE i \in 1..Len(sc) :
        /\ \A j \in 1..Len(sc) : sc[j] <= sc[i]
        /\ \A j \in 1..(i - 1) : sc[j] < sc[i]

\* the best move an iteration with root scores sc produced: its first
\* highest-scoring root move, none if no score exceeds -infinity
BestMoveOf(sc) ==
    IF \A i \in 1..Len(sc) : sc[i] = 0 - Inf
    THEN None
    ELSE legal_moves[ArgMaxFirst(sc)]

\* the best move of the deepest depth completed within budget, if any
Held == IF done_scores = << >> THEN None
        ELSE BestMoveOf(done_scores[Len(done_scores)])

\* the side to move at position id is checkmated within n plies whatever it
\* plays / can force checkmate within n plies
RECURSIVE Mated(_, _), Mates(_, _)
Mated(id, n) ==
    LET nd == NodeOf(id)
    IN  \/ nd.over = "checkmate"
        \/ /\ n > 0
           /\ nd.over = "none"
           /\ \A i \in 1..Len(nd.moves) : Mates(nd.moves[i].to, n - 1)

Mates(id, n) ==
    LET nd == NodeOf(id)
    IN  /\ n > 0
        /\ nd.over = "none"
        /\ \E i \in 1..Len(nd.moves) : Mated(nd.moves[i].to, n - 1)

\* root move m forces checkmate at ply MatePly(m) from the root (0: it forces
\* none within the deepest search)
MatePly(m) ==
    IF \E n \in 0..(max_depth - 1) : Mated(m.to, n)
    THEN 1 + CHOOSE n \in 0..(max_depth - 1) :
               Mated(m.to, n) /\ \A k \in 0..(n - 1) : ~Mated(m.to, k)
    ELSE 0

\* the moves pushed and not yet popped, as the waiting activations hold them
RECURSIVE FramesPushed(_)
FramesPushed(fs) ==
    IF fs = << >> THEN << >>
    ELSE (IF Head(fs).pc = "called" THEN << Head(fs).moves[Head(fs).i] >> ELSE << >>)
         \o FramesPushed(Tail(fs))

DriverPushed == IF pc = "called" THEN << legal_moves[idx] >> ELSE << >>

-----------------------------------------------------------------------------
(* The claims *)

\* C1: for a root position with a legal move get_best_move returns one of the
\* root's legal moves, never None, wherever the deadline fell.
C1_ReturnsLegalMove ==
    (Done /\ game.moves # << >>) =>
        \E i \in 1..Len(game.moves) : result = game.moves[i]

\* C2: every value negamax or quiescence returns, and every root score, is
\* finite: neither -infinity nor +infinity.
C2_FiniteScores ==
    /\ ret \notin {Inf, 0 - Inf}
    /\ \A i \in 1..Len(scores) : scores[i] \notin {Inf, 0 - Inf}

\* C3 as stated: with exactly one mating root move, the search that finds the
\* deadline passed once the first root move was searched at depth 1 returns
\* the mating move.
C3_MateUnderSmallBudget ==
    (Done /\ ExactlyOneMate /\ current_depth = 1 /\ Len(scores) = 1) =>
        result = MatingMove

\* C3 as amended: it does so if the mating move is the first root move in the
\* driver's capture-first order.
C3_MateFirstUnderSmallBudget ==
    (Done /\ ExactlyOneMate /\ current_depth = 1 /\ Len(scores) = 1
          /\ legal_moves[1] = MatingMove) =>
        result = MatingMove

\* C3 witness: two root moves, the mating capture generated second and sorted
\* first, the deadline passed after it was searched, and it is returned.
C3_Witness ==
    /\ Done /\ ExactlyOneMate /\ current_depth = 1 /\ Len(scores) = 1
    /\ Len(game.moves) = 2
    /\ game.moves[2] = MatingMove
    /\ legal_moves[1] = MatingMove
    /\ result = MatingMove

\* C4: with exactly one mating root move, the search that completes all
\* depths up to max_depth returns the mating move.
C4_MateWhenComplete ==
    (Completed /\ ExactlyOneMate) => result = MatingMove

\* C5: at a fixed root depth, of two root moves forcing checkmate inside the
\* horizon the one that mates in fewer plies scores strictly better (the
\* slower mate searched first, so that the faster one's score is exact).
C5_ShorterMateScoresBetter ==
    \A i, j \in 1..Len(scores) :
        (/\ pc \in {"for", "called", "after_for"}
         /\ j < i
         /\ MatePly(legal_moves[i]) > 0
         /\ MatePly(legal_moves[i]) < MatePly(legal_moves[j])
         /\ MatePly(legal_moves[j]) < current_depth)
        => scores[i] > scores[j]

\* C6: a timeout found during depth d >= 2, depth d-1 having completed with a
\* best move, returns the best move of depth d-1, not the partial one of depth d.
C6_KeepsPreviousDepth ==
    (TimedOut /\ current_depth >= 2
              /\ BestMoveOf(done_scores[current_depth - 1]) # None) =>
        result = BestMoveOf(done_scores[current_depth - 1])

\* C6 witness: a timeout at depth >= 2 whose partial best move differs from
\* the previous depth's, which is returned.
C6_Witness ==
    /\ TimedOut /\ current_depth >= 2
    /\ BestMoveOf(done_scores[current_depth - 1]) # None
    /\ depth_best_move # None
    /\ depth_best_move # BestMoveOf(done_scores[current_depth - 1])
    /\ result = BestMoveOf(done_scores[current_depth - 1])

\* C7: a timeout found during depth 1 returns the best-scoring of the root
\* moves searched before the abort, not "no move".
C7_PartialFirstDepth ==
    (TimedOut /\ current_depth = 1) => result = legal_moves[ArgMaxFirst(scores)]

\* C8 as stated: the move returned is the best move of the deepest iteration
\* whose loop searched every root move (where that iteration produced one).
C8_DeepestFullySearched ==
    LET full == IF current_depth <= max_depth /\ Len(scores) = Len(legal_moves)
                THEN scores
                ELSE IF done_scores # << >> THEN done_scores[Len(done_scores)]
                ELSE << >>
    IN  (Done /\ game.moves # << >> /\ BestMoveOf(full) # None) =>
            result = BestMoveOf(full)

\* C8 as amended: the move returned is the best move of the deepest iteration
\* completed within budget (all root moves searched and the clock read after
\* the loop within the limit); failing such a move, a timed-out search returns
\* the timed-out iteration's best move so far.
C8_DeepestWithinBudget ==
    (Done /\ game.moves # << >>) =>
        result = IF Completed \/ Held # None THEN Held ELSE BestMoveOf(scores)

\* C8 witness: the loop of depth d >= 2 searched every root move, the clock
\* read after it was over the limit, and the previous depth's different best
\* move is returned.
C8_Witness ==
    /\ TimedOut /\ current_depth >= 2
    /\ Len(scores) = Len(legal_moves)
    /\ BestMoveOf(scores) # None
    /\ Held # None
    /\ BestMoveOf(scores) # Held
    /\ result = Held

\* C9: the moves on the board above the root are exactly the moves of the
\* activations waiting for the call they pushed them for, in call order: every
\* push is popped before its function returns, and get_best_move returns with
\* the board as it got it.
C9_PushPopPaired ==
    /\ board.move_stack = DriverPushed \o FramesPushed(frames)
    /\ pc \in {"idle", "done"} => board.move_stack = << >>

\* C9 witness: a search that took the stand-pat return, the quiescence cutoff,
\* the negamax break and the driver's timeout break, and returned with the
\* board restored.
C9_Witness ==
    /\ Done
    /\ {"stand_pat", "cutoff", "break", "timeout"} \subseteq exits
    /\ board.move_stack = << >>

\* C10: a root position without legal moves makes get_best_move return None
\* at once: no negamax or quiescence call, the node counter 0, no move applied.
C10_NoLegalMove ==
    game.moves = << >> =>
        /\ pc \in {"idle", "done"}
        /\ frames = << >>
        /\ board.move_stack = << >>
        /\ nodes_visited = 0
        /\ pc = "done" => result = None

\* C10 witness: get_best_move has returned on a checkmated root.
C10_Witness ==
    /\ Done
    /\ game.moves = << >>
    /\ game.check
    /\ result = None
    /\ nodes_visited = 0

-----------------------------------------------------------------------------
(* The claims about evaluate, under SpecEval *)

\* the position with colours swapped, ranks mirrored, the other side to move
Mirror(p) == [p EXCEPT !.turn = ~p.turn, !.pm = { Flip(x) : x \in p.pm }]

\* C11: evaluate(P) = -evaluate(P') for the colour-flipped mirror P' of P, and a
\* Black piece on rank r gets the positional bonus of the same White piece on
\* rank 7 - r of the same file.
C11_ZeroSumSymmetry ==
    out.done =>
        /\ out.value = 0 - evaluate(Mirror(probe.p))
        /\ \A x \in probe.p.pm : PieceTerm(x) = PieceTerm(Flip(x))

\* C11 witness: a non-terminal position with a Black pawn on rank 6 (its
\* second rank), evaluated to a score other than 0.
C11_Witness ==
    /\ out.done
    /\ probe.p.over = "none"
    /\ \E x \in probe.p.pm : x[2] = PAWN /\ x[3] = BLACK /\ square_rank(x[1]) = 6
    /\ out.value # 0

\* C12: on a checkmate evaluate returns -99999 with White to move and +99999
\* with Black to move, whatever the material.
C12_MateScore ==
    (out.done /\ probe.p.over = "checkmate") =>
        out.value = IF probe.p.turn = WHITE THEN 0 - 99999 ELSE 99999

\* C12 witness: White, a queen up, is checkmated and evaluate returned -99999.
C12_Witness ==
    /\ out.done
    /\ probe.p.over = "checkmate"
    /\ probe.p.turn = WHITE
    /\ \E x \in probe.p.pm : x[2] = QUEEN /\ x[3] = WHITE
    /\ out.value = 0 - 99999

\* C13: on a stalemate or on insufficient material evaluate returns 0,
\* whatever the pieces and their squares.
C13_DrawScore ==
    (out.done /\ probe.p.over \in {"stalemate", "insufficient"}) => out.value = 0

\* C13 witness: a stalemate with a White queen on the board, evaluated to 0.
C13_Witness ==
    /\ out.done
    /\ probe.p.over = "stalemate"
    /\ \E x \in probe.p.pm : x[2] = QUEEN /\ x[3] = WHITE
    /\ out.value = 0

\* the material values the claim names
Material(t) ==
    CASE t = PAWN   -> 100
      [] t = KNIGHT -> 320
      [] t = BISHOP -> 330
      [] t = ROOK   -> 500
      [] t = QUEEN  -> 900
      [] t = KING   -> 20000

\* the table entry of a White piece of type t on file f, rank r (the tables
\* list rank 7 first)
Bonus(t, f, r) == pst(t)[(7 - r) * 8 + f + 1]

\* material + bonus of a piece, Black's bonus read at the mirrored rank
Worth(x) ==
    LET f == square_file(x[1])
        r == square_rank(x[1])
    IN  Material(x[2]) + (IF x[3] = WHITE THEN Bonus(x[2], f, r) ELSE Bonus(x[2], f, 7 - r))

RECURSIVE TotalWorth(_)
TotalWorth(ps) ==
    IF ps = {} THEN 0
    ELSE LET x == CHOOSE y \in ps : TRUE
         IN  Worth(x) + TotalWorth(ps \ {x})

\* C14: on a non-terminal position evaluate returns White's material and
\* bonuses minus Black's material and mirrored bonuses, and leaves the board
\* and the node counter as they were.
C14_MaterialAndPosition ==
    (out.done /\ probe.p.over = "none") =>
        /\ out.value = TotalWorth({ x \in probe.p.pm : x[3] = WHITE })
                       - TotalWorth({ x \in probe.p.pm : x[3] = BLACK })
        /\ board = [move_stack |-> << >>]
        /\ nodes_visited = 0

\* C14 witness: a non-terminal position with a Black knight, evaluated.
C14_Witness ==
    /\ out.done
    /\ probe.p.over = "none"
    /\ \E x \in probe.p.pm : x[2] = KNIGHT /\ x[3] = BLACK
    /\ out.value = TotalWorth({ x \in probe.p.pm : x[3] = WHITE })
                   - TotalWorth({ x \in probe.p.pm : x[3] = BLACK })

-----------------------------------------------------------------------------
(* The claims about the window, under SpecWindow *)

\* C15: quiescence called with alpha <= beta returns a score r with
\* alpha <= r <= beta.
C15_QuiescenceFailHard ==
    (out.done /\ probe.fn = "quiescence") =>
        (probe.alpha <= out.value /\ out.value <= probe.beta)

\* C15 witness: a quiescence call with a finite window that left by the
\* stand-pat cutoff and returned beta.
C15_Witness ==
    /\ out.done
    /\ probe.fn = "quiescence"
    /\ 0 - Inf < probe.alpha /\ probe.alpha < probe.beta /\ probe.beta < Inf
    /\ "stand_pat" \in out.exits
    /\ out.value = probe.beta

\* C16: the full-window negamax score is at least the score of negamax on the
\* same position and depth with any narrower window, when that call ended
\* without a beta cutoff.
C16_FullWindowAtLeastNarrow ==
    (out.done /\ probe.fn = "negamax" /\ "outermost" \notin out.exits) =>
        previous.value >= out.value

\* C16 as it holds: the full-window score is at least the narrow-window score
\* whenever the narrow call returned more than the alpha it was given.
C16_FullWindowAtLeastRaised ==
    (out.done /\ probe.fn = "negamax" /\ out.value > probe.alpha) =>
        previous.value >= out.value

\* C16 witness: a search of depth >= 2 with a finite window returned a score
\* above its alpha and below its beta, without a cutoff of the outermost call,
\* and the full-window score is no smaller.
C16_Witness ==
    /\ out.done
    /\ probe.fn = "negamax"
    /\ probe.depth >= 2
    /\ 0 - Inf < probe.alpha /\ probe.beta < Inf
    /\ probe.alpha < out.value /\ out.value < probe.beta
    /\ "outermost" \notin out.exits
    /\ previous.value >= out.value

\* C19: negamax called with remaining depth 0 on a checkmated position returns,
\* via quiescence, a mate score of magnitude 99999, whatever the window.
C19_MateAtHorizon ==
    (out.done /\ probe.fn = "negamax" /\ probe.depth = 0
       /\ is_checkmate(Position(game, board))) =>
        (out.value = 0 - 99999 /\ previous.value = 0 - 99999)

\* what the code returns there: the alpha it was called with
MateAtHorizonReturnsAlpha ==
    (out.done /\ probe.fn = "negamax" /\ probe.depth = 0
       /\ is_checkmate(Position(game, board))) =>
        (out.value = probe.alpha /\ previous.value = 0 - Inf)

\* The search with the beta cutoff disabled: quiescence without its two
\* "return beta", negamax without its "break"; every sibling is searched.
RECURSIVE quiescence_all(_, _, _, _), quiescence_all_for(_, _, _, _, _, _)
RECURSIVE negamax_all(_, _, _, _, _), negamax_all_for(_, _, _, _, _, _, _, _)

quiescence_all(g, b, a, bt) ==
    LET p  == Position(g, b)
        sp == stand_pat(p)
    IN  quiescence_all_for(g, b, IF ~is_check(p) /\ sp > a THEN sp ELSE a, bt,
                           moves_to_search(p), 1)

quiescence_all_for(g, b, a, bt, moves, i) ==
    IF i > Len(moves) THEN a
    ELSE LET score == 0 - quiescence_all(g, push(b, moves[i]), 0 - bt, 0 - a)
         IN  quiescence_all_for(g, b, IF score > a THEN score ELSE a, bt, moves, i + 1)

negamax_all(g, b, depth, a, bt) ==
    LET p == Position(g, b)
    IN  IF depth = 0 THEN quiescence_all(g, b, a, bt)
        ELSE IF is_game_over(p) THEN terminal_score(p, depth)
        ELSE negamax_all_for(g, b, depth, a, bt, negamax_moves(p), 1, 0 - Inf)

negamax_all_for(g, b, depth, a, bt, moves, i, max_score) ==
    IF i > Len(moves) THEN max_score
    ELSE LET score == 0 - negamax_all(g, push(b, moves[i]), depth - 1, 0 - bt, 0 - a)
             best  == IF score > max_score THEN score ELSE max_score
         IN  negamax_all_for(g, b, depth, IF best > a THEN best ELSE a, bt,
                             moves, i + 1, best)

\* C20: for every position and every depth 1..4 the full-window negamax
\* returns the score the same search returns with the beta cutoff disabled.
C20_PruningKeepsFullWindowScore ==
    (out.done /\ probe.fn = "negamax" /\ probe.depth >= 1
       /\ probe.alpha = 0 - Inf /\ probe.beta = Inf) =>
        out.value = negamax_all(game, [move_stack |-> << >>], probe.depth, 0 - Inf, Inf)

\* C20 witness: a full-window search of depth >= 2 that left a negamax loop by
\* its break and returned the finite score of the unpruned search.
C20_Witness ==
    /\ out.done
    /\ probe.fn = "negamax"
    /\ probe.depth >= 2
    /\ probe.alpha = 0 - Inf /\ probe.beta = Inf
    /\ "break" \in out.exits
    /\ 0 - Inf < out.value /\ out.value < Inf
    /\ out.value = negamax_all(game, [move_stack |-> << >>], probe.depth, 0 - Inf, Inf)

-----------------------------------------------------------------------------
(* The claims about the driver, continued *)

\* the place of root move m in legal_moves
IndexOf(m) == CHOOSE i \in 1..Len(legal_moves) : legal_moves[i] = m

\* an iteration of depth >= 2 has just completed within budget with a best move
DeeperCompleted ==
    /\ pc = "while"
    /\ current_depth >= 3
    /\ Len(done_scores) = current_depth - 1
    /\ best_move # None

\* C18: when the iteration at depth d + 1 (d >= 1) completed with m as its best
\* move, m's score at depth d + 1 is at least the score m received at depth 1.
C18_DeeperScoreAtLeastFirst ==
    DeeperCompleted =>
        done_scores[current_depth - 1][IndexOf(best_move)]
          >= done_scores[1][IndexOf(best_move)]

\* C18 as it holds: m's score at depth d + 1 is the iteration's best score, above
\* -infinity and at least every root move's score at that depth.
C18_DeeperScoreIsHighest ==
    DeeperCompleted =>
        LET sc == done_scores[current_depth - 1]
            s  == sc[IndexOf(best_move)]
        IN  /\ s = depth_best_score
            /\ s > 0 - Inf
            /\ \A j \in 1..Len(sc) : sc[j] <= s

\* C18 witness: depth 3 completed with a best move, out of two root moves,
\* whose score there is the highest, and below its depth-1 score, both being
\* no mate score.
C18_Witness ==
    /\ DeeperCompleted
    /\ current_depth = 4
    /\ Len(legal_moves) = 2
    /\ done_scores[3][IndexOf(best_move)] < done_scores[1][IndexOf(best_move)]
    /\ \A j \in 1..2 : done_scores[3][j] <= done_scores[3][IndexOf(best_move)]
    /\ 0 - MATE < done_scores[3][IndexOf(best_move)]
    /\ done_scores[1][IndexOf(best_move)] < MATE

-----------------------------------------------------------------------------
(* The claim about two calls, under SpecTwoCalls *)

\* the second call has returned, having stopped where the first one did: in the
\* same iteration, after the same number of root moves
SecondStoppedAlike ==
    /\ pc = "done"
    /\ previous # NoCall
    /\ previous.depth = current_depth
    /\ previous.searched = Len(scores)

-----------------------------------------------------------------------------
(* The claims about the driver's iterations, under Spec *)

\* the exact score of root move i at the depth being searched: the negated
\* value of the unpruned search of the position after it
ExactScore(i) ==
    0 - negamax_all(game, push([move_stack |-> << >>], legal_moves[i]),
                    current_depth - 1, 0 - Inf, Inf)

ExactScores == [i \in 1..Len(legal_moves) |-> ExactScore(i)]

\* the root-move loop of the current iteration has searched every root move
SearchedAll == pc = "after_for" /\ Len(scores) = Len(legal_moves)

\* C21: in every iteration whose loop searches all root moves, the move
\* recorded as the depth's best is the earliest root move whose exact score at
\* that depth is maximal over all root moves.
C21_BestIsFirstMaximalExact ==
    SearchedAll => depth_best_move = legal_moves[ArgMaxFirst(ExactScores)]

-----------------------------------------------------------------------------
(* The claims about single steps of negamax and quiescence *)

\* negamax is entered with remaining depth >= 1 on a game-over position
TerminalEntry ==
    /\ Running("negamax", "enter")
    /\ Top.depth >= 1
    /\ is_game_over(Position(game, board))

\* C22: negamax called with remaining depth d >= 1 on a game-over position
\* returns -99999 + d on a checkmate and 0 on any other game-over condition, at
\* once: no move is applied, no call is made, only the node is counted.
C22_TerminalNegamax ==
    [][ TerminalEntry =>
          /\ frames' = Callers
          /\ ret' = IF Position(game, board).over = "checkmate"
                    THEN 0 - 99999 + Top.depth ELSE 0
          /\ board' = board
          /\ nodes_visited' = nodes_visited + 1 ]_vars

\* C22 witness: negamax called twice with depth 3 on a checkmated position
\* returned -99996 and counted two nodes, one for each call.
C22_Witness ==
    /\ out.done
    /\ probe.fn = "negamax"
    /\ probe.depth = 3
    /\ is_checkmate(Position(game, board))
    /\ out.value = 0 - 99996
    /\ previous.value = 0 - 99996
    /\ nodes_visited = 2

-----------------------------------------------------------------------------
(* The claims about the order of the driver's steps, under Spec *)

\* the step starts an iteration
StartsDepth == pc = "while" /\ pc' = "for"

\* the driver has read the clock and found the budget exceeded
ObservedExceeded == "timeout" \in exits \/ TimedOut

\* C23: depths are started in the order 1, 2, 3, 4, none skipped or repeated,
\* each with alpha = -infinity and beta = +infinity, none above 4, depth d + 1
\* only after depth d completed within budget; once the budget has been seen
\* exceeded no negamax call is made.
C23_DepthOrder ==
    [][ /\ StartsDepth =>
             /\ current_depth \in 1..4
             /\ current_depth = Len(done_scores) + 1
             /\ alpha' = 0 - Inf /\ beta' = Inf
        /\ current_depth' # current_depth =>
             \/ pc = "idle" /\ current_depth' = 1
             \/ /\ pc = "after_for"
                /\ ~time_exceeded(now')
                /\ current_depth' = current_depth + 1
                /\ Len(done_scores') = current_depth
        /\ ObservedExceeded => (frames' = << >> /\ pc' \in {"after_for", "done"})
      ]_vars

\* C23 witness: depth 4 has been started, after depths 1, 2 and 3 completed,
\* with the full window.
C23_Witness ==
    /\ pc = "for"
    /\ idx = 1
    /\ current_depth = 4
    /\ Len(done_scores) = 3
    /\ alpha = 0 - Inf /\ beta = Inf

\* C24: the clock is read, and the budget tested, only by the driver once a
\* root move has been searched and undone; the steps of negamax and quiescence
\* neither read the clock nor end the iteration; so every iteration started
\* searches at least one root move to completion.
C24_ClockOnlyBetweenRootMoves ==
    [][ /\ (now' # now \/ ("timeout" \in exits' /\ "timeout" \notin exits)) =>
             /\ pc \in {"called", "after_for"}
             /\ frames = << >>
             /\ board' = [move_stack |-> << >>]
             /\ Len(scores') >= 1
        /\ frames # << >> => (now' = now /\ pc' = pc)
        /\ (pc = "for" /\ idx = 1) => pc' = "called"
        /\ pc' = "after_for" => Len(scores') >= 1
      ]_vars

\* C24 witness: with time_limit = 0 the first iteration searched its first root
\* move of two, then found the budget exceeded, and the search returned it.
C24_Witness ==
    /\ pc = "done"
    /\ time_limit = 0
    /\ current_depth = 1
    /\ Len(legal_moves) = 2
    /\ Len(scores) = 1
    /\ now > start_time
    /\ result = legal_moves[1]

-----------------------------------------------------------------------------
(* The claim about the board during a search, under Spec *)

\* the moves on the board form a path from the root: each is a legal move of
\* the position the moves before it lead to
PathFromRoot ==
    \A k \in 1..Len(board.move_stack) :
        \E n \in 1..Len(Position(game, [move_stack |-> SubSeq(board.move_stack, 1, k - 1)]).moves) :
            Position(game, [move_stack |-> SubSeq(board.move_stack, 1, k - 1)]).moves[n]
              = board.move_stack[k]

\* the recursion ply: the activations, the driver included, that have applied a
\* move and not yet undone it
Ply ==
    Cardinality({ k \in 1..Len(frames) : frames[k].pc = "called" })
      + (IF pc = "called" THEN 1 ELSE 0)

\* who may apply a move: the driver or the running activation, in its loop,
\* with no move of its own on the board
MayPush ==
    \/ frames = << >> /\ pc = "for"
    \/ frames # << >> /\ Top.pc = "for"

\* who may undo a move: the driver or the activation whose call has returned,
\* and the move undone is the one it applied
MayPop ==
    /\ board.move_stack # << >>
    /\ \/ frames = << >> /\ pc = "called"
             /\ board.move_stack[Len(board.move_stack)] = legal_moves[idx]
       \/ frames # << >> /\ Top.pc = "called"
             /\ board.move_stack[Len(board.move_stack)] = Top.moves[Top.i]

\* C25: at every moment the moves applied and not yet undone form one path from
\* the root whose length is the recursion ply; a move is applied only by an
\* activation with no move of its own outstanding, and the move undone is
\* always the last one applied.
C25_SinglePathLIFO ==
    /\ [](PathFromRoot /\ Len(board.move_stack) = Ply)
    /\ [][ \/ board' = board
           \/ MayPush /\ board' = push(board, board'.move_stack[Len(board'.move_stack)])
           \/ MayPop /\ board' = pop(board)
         ]_vars

\* C25 witness: three moves deep, the second sibling of some node is on the
\* board after its first sibling was searched and undone.
C25_Witness ==
    /\ Len(board.move_stack) = 3
    /\ PathFromRoot
    /\ \E k \in 1..Len(frames) : frames[k].pc = "called" /\ frames[k].i = 2

-----------------------------------------------------------------------------
(* The claims about the loops of negamax and quiescence, under SpecWindow *)

\* the score of the move whose search has just returned to the running negamax
ReturnedScore == 0 - ret

\* max_score and alpha as that score leaves them
RaisedMax == IF ReturnedScore > Top.max_score THEN ReturnedScore ELSE Top.max_score

RaisedAlpha == IF RaisedMax > Top.alpha THEN RaisedMax ELSE Top.alpha

\* C26: in negamax, once a searched move has made alpha >= beta the call
\* returns in that step, no further sibling applied, and when the move raised
\* alpha from below beta the value returned is >= the beta of the call.
C26_NegamaxCutoff ==
    [][ (Running("negamax", "called") /\ RaisedAlpha >= Top.beta) =>
          /\ frames' = Callers
          /\ board' = pop(board)
          /\ ret' = RaisedMax
          /\ Top.alpha < Top.beta => ret' >= Top.beta ]_vars

\* C26 witness: a move searched under a finite window has come back with a
\* score >= beta while a sibling is still unsearched.
C26_Witness ==
    /\ Running("negamax", "called")
    /\ Top.i < Len(Top.moves)
    /\ Top.alpha < Top.beta
    /\ Top.beta < Inf
    /\ RaisedAlpha >= Top.beta

\* the elements of a sequence
Range(q) == { q[k] : k \in 1..Len(q) }

\* the running quiescence call goes on into its loop with alpha al and
\* candidate moves cs
EntersLoopWith(al, cs) ==
    /\ Len(frames') = Len(frames)
    /\ frames'[Len(frames')].pc = "for"
    /\ frames'[Len(frames')].alpha = al
    /\ Len(frames'[Len(frames')].moves) = Cardinality(cs)
    /\ Range(frames'[Len(frames')].moves) = cs

\* C27: in quiescence, in check there is no stand-pat (no cutoff by it, alpha
\* not raised by it) and every legal move is a candidate; out of check only
\* the capturing moves are candidates, and no non-capturing move is applied.
C27_QuiescenceCandidates ==
    [][ /\ Running("quiescence", "enter") =>
             LET p == Position(game, board)
             IN  IF is_check(p)
                 THEN EntersLoopWith(Top.alpha, Range(p.moves))
                 ELSE \/ frames' = Callers /\ ret' = Top.beta
                      \/ EntersLoopWith(
                           IF stand_pat(p) > Top.alpha THEN stand_pat(p) ELSE Top.alpha,
                           { m \in Range(p.moves) : m.cap })
        /\ (Running("quiescence", "for") /\ board' # board) =>
             \/ is_check(Position(game, board))
             \/ board'.move_stack[Len(board'.move_stack)].cap
      ]_vars

\* C27 witness: quiescence, called in check on a position whose static score
\* is above beta, has applied a non-capturing move with its alpha unchanged.
C27_Witness ==
    /\ probe.fn = "quiescence"
    /\ probe.stage = "window"
    /\ Len(frames) = 1
    /\ Top.pc = "called"
    /\ Len(board.move_stack) = 1
    /\ ~board.move_stack[1].cap
    /\ is_check(Position(game, [move_stack |-> << >>]))
    /\ stand_pat(Position(game, [move_stack |-> << >>])) >= probe.beta
    /\ Top.alpha = probe.alpha

-----------------------------------------------------------------------------
(* The claim about negamax's move order, under SpecFull *)

\* the material value of the piece a move captures: 0 when the destination
\* square is empty (en passant)
CapturedValue(m) == IF m.victim = 0 THEN 0 ELSE Material(m.victim)

\* captures before non-captures, captures by non-increasing captured value
CapturesFirstByValue(ms) ==
    \A i, j \in 1..Len(ms) :
        i < j =>
          /\ ms[j].cap => ms[i].cap
          /\ (ms[i].cap /\ ms[j].cap) => CapturedValue(ms[i]) >= CapturedValue(ms[j])

\* ms holds every element of q once and nothing else (q has no repetition)
PermutationOf(ms, q) == Len(ms) = Len(q) /\ Range(ms) = Range(q)

\* C28: negamax searches the legal moves in an order that puts every capture,
\* en passant included, before every non-capture and the captures in
\* non-increasing order of the captured piece's value; the order is a
\* permutation of the legal moves.
C28_NegamaxOrder ==
    [][ /\ (Running("negamax", "enter") /\ Top.depth >= 1
              /\ ~is_game_over(Position(game, board))) =>
             /\ Len(frames') = Len(frames)
             /\ PermutationOf(frames'[Len(frames')].moves, Position(game, board).moves)
             /\ CapturesFirstByValue(frames'[Len(frames')].moves)
             /\ frames'[Len(frames')].i = 1
        /\ (Running("negamax", "for") /\ board' # board) =>
             board' = push(board, Top.moves[Top.i])
        /\ (Running("negamax", "called") /\ Len(frames') = Len(frames)) =>
             /\ frames'[Len(frames')].i = Top.i + 1
             /\ frames'[Len(frames')].moves = Top.moves
      ]_vars

\* C28 witness: the legal moves came as an en passant capture, then the capture
\* of a rook; negamax is about to search the rook capture first.
C28_Witness ==
    /\ Len(frames) = 1
    /\ Running("negamax", "for")
    /\ Top.i = 1
    /\ game.moves = << Capture(0, "QO"), Capture(ROOK, "TradeO") >>
    /\ Top.moves = << Capture(ROOK, "TradeO"), Capture(0, "QO") >>

-----------------------------------------------------------------------------
(* The claim about the end of quiescence, under SpecQuiescence *)

-----------------------------------------------------------------------------
(* The claim about AIChessPlayer.get_move, under SpecPlayer *)

\* C30: get_move terminates and returns a legal move after at most 3 rounds of
\* language-model interaction, whatever call_llm returns: it never asks the
\* language model a fourth time, and once called it returns a legal move.
C30_GetMoveReturnsWithinThreeRounds ==
    /\ [](frames # << >> => Top.calls <= max_turns)
    /\ (probe.stage = "running")
           ~> (out.done /\ out.value \in legal_move_set(Position(game, board)))

====
